---- MODULE Spec2Model ----
(***************************************************************************)
(* SubSlider (src/subslider.py): one run of the script shifts every        *)
(* timestamp of an .srt file by an offset (parse_subs, written to a temp   *)
(* file), then drops the blocks before the first valid one and renumbers   *)
(* the rest (fix_file).                                                    *)
(*                                                                         *)
(* A datetime is modelled as its distance in milliseconds from DATE_ZERO   *)
(* (2000-01-01 00:00:00); it is negative for a time on 1999-12-31.  A      *)
(* timedelta is a number of milliseconds.  A timestamp text HH:MM:SS,mmm   *)
(* is the tuple <<HH, MM, SS, mmm>> of its fields.  A string that the      *)
(* script converts with int() or str() is a sequence of characters.        *)
(*                                                                         *)
(* A file is the sequence of its lines.  A line carries what the code      *)
(* reads (kind, n, s, e, eol) and two history fields the code never reads: *)
(* role (what the line is in the .srt grammar) and b (the block of the     *)
(* original document it belongs to).                                       *)
(***************************************************************************)
EXTENDS Integers, Sequences, FiniteSets

VARIABLES
    pc,               \* position in SubSlider.__init__
    run,              \* 1: first invocation, 2: invocation on the first one's output
    args,             \* the command line: [mode, offset]
    input_exists,     \* os.path.isfile(input_file)
    input_subs,       \* content of the input file
    orig_subs,        \* history: the input of the first invocation
    minutes, seconds, millis,   \* the strings check_args returns
    choice,           \* what the user typed at the start_at prompt
    first_starts_at,  \* start of the line chosen at the prompt
    offset,           \* the timedelta applied
    subtract_offset,  \* TRUE: offset_func subtracts
    first_valid,      \* self.first_valid
    temp_exists,      \* the temp file is on disk
    output_temp,      \* content of the temp file
    output_subs,      \* content of the output file
    error             \* the exception that ended the run, "none" if none

vars == <<pc, run, args, input_exists, input_subs, orig_subs, minutes, seconds,
          millis, choice, first_starts_at, offset, subtract_offset, first_valid,
          temp_exists, output_temp, output_subs, error>>

(***************************************************************************)
(* Bounds of the model.                                                    *)
(***************************************************************************)
MaxBlocks == 3

(***************************************************************************)
(* Program constants.                                                      *)
(***************************************************************************)
LINES_TO_SHOW == 10

DAY == 24 * 60 * 60 * 1000

DATE_ZERO == 0 * DAY

PyVersions == {2, 3}

(***************************************************************************)
(* Strings of digits: str() and int().                                     *)
(***************************************************************************)
DigitChars == <<"0", "1", "2", "3", "4", "5", "6", "7", "8", "9">>

IsDigit(c) == \E i \in 1..10 : DigitChars[i] = c

DigitVal(c) == (CHOOSE i \in 1..10 : DigitChars[i] = c) - 1

IsDigits(s) == Len(s) >= 1 /\ \A i \in 1..Len(s) : IsDigit(s[i])

RECURSIVE int(_)
int(s) == IF Len(s) = 0 THEN 0
          ELSE 10 * int(SubSeq(s, 1, Len(s) - 1)) + DigitVal(s[Len(s)])

RECURSIVE str(_)
str(n) == IF n < 10 THEN <<DigitChars[n + 1]>>
          ELSE str(n \div 10) \o <<DigitChars[(n % 10) + 1]>>

\* str(a / b): Python 2 divides two ints to an int; Python 3 divides them to a
\* float, whose text always holds a "." (only its first decimal is kept here).
str_div(py, a, b) ==
    IF py = 2 THEN str(a \div b)
    ELSE str(a \div b) \o <<".">> \o str(((a % b) * 10) \div b)

\* s.ljust(3, '0')
RECURSIVE ljust3(_)
ljust3(s) == IF Len(s) >= 3 THEN s ELSE ljust3(s \o <<"0">>)

(***************************************************************************)
(* Time codec.                                                             *)
(***************************************************************************)
\* datetime.strptime(time, '%H:%M:%S,%f') raises ValueError on a field out of
\* range; SUB_TIME_FORMAT only fixes the number of digits of each field.
parse_time_ok(time) == time[1] <= 23 /\ time[2] <= 59 /\ time[3] <= 59

parse_time(time) ==
    ((time[1] * 60 + time[2]) * 60 + time[3]) * 1000 + time[4]

\* strftime prints the time of day only: the date of the value is lost.
format_time(value) ==
    LET tod == value % DAY
    IN  <<tod \div 3600000, (tod \div 60000) % 60, (tod \div 1000) % 60,
          tod % 1000>>

get_date_ok(mins, secs, ms) ==
    /\ IsDigits(mins) /\ IsDigits(secs) /\ IsDigits(ms)
    /\ int(mins) <= 59 /\ int(secs) <= 59 /\ int(ms) * 1000 <= 999999

get_date(mins, secs, ms) ==
    DATE_ZERO + (int(mins) * 60 + int(secs)) * 1000 + int(ms)

(***************************************************************************)
(* Lines and documents.                                                    *)
(***************************************************************************)
ZeroStamp == <<0, 0, 0, 0>>

Line(role, b, kind, n, s, e, eol) ==
    [role |-> role, b |-> b, kind |-> kind, n |-> n, s |-> s, e |-> e,
     eol |-> eol]

\* A line that is a bare integer: re.match('\d+$', line.strip()).
DigitsLine(role, b, n, eol) == Line(role, b, "digits", n, ZeroStamp, ZeroStamp, eol)

\* A line SUB_TIME_FORMAT finds a timestamp pair in.
TimeLine(b, s, e, eol) == Line("time", b, "time", 0, s, e, eol)

WordsLine(b) == Line("text", b, "words", 0, ZeroStamp, ZeroStamp, "LF")

BlankLine(b) == Line("blank", b, "blank", 0, ZeroStamp, ZeroStamp, "LF")

\* The timestamp pairs of the input blocks: ordinary ones, one that ends the
\* day, and one whose minutes field strptime rejects.
TimePairs ==
    { <<(<<0, 0, 1, 0>>), (<<0, 0, 3, 0>>)>>,
      <<(<<0, 0, 4, 0>>), (<<0, 0, 6, 500>>)>>,
      <<(<<0, 0, 3, 0>>), (<<0, 0, 8, 0>>)>>,
      <<(<<0, 0, 10, 0>>), (<<0, 0, 12, 0>>)>>,
      <<(<<23, 59, 58, 0>>), (<<23, 59, 59, 999>>)>>,
      <<(<<0, 61, 0, 0>>), (<<0, 61, 2, 0>>)>> }

\* The text of a block: a line of words, or a line that is a number.
Texts == {"words", "digits"}

TextLine(b, text) ==
    IF text = "words" THEN WordsLine(b) ELSE DigitsLine("text", b, 1, "LF")

BlockSpecs == [pair : TimePairs, text : Texts]

\* Block number b of a document, as the lines of the file.
BlockLines(b, spec) ==
    << DigitsLine("seq", b, b, "LF"),
       TimeLine(b, spec.pair[1], spec.pair[2], "LF"),
       TextLine(b, spec.text),
       BlankLine(b) >>

RECURSIVE Document(_)
Document(specs) ==
    IF Len(specs) = 0 THEN <<>>
    ELSE Document(SubSeq(specs, 1, Len(specs) - 1))
             \o BlockLines(Len(specs), specs[Len(specs)])

\* The input documents: up to MaxBlocks blocks numbered 1, 2, ... with any
\* timestamp pairs, in any order, and one kind of text.
Documents ==
    UNION { { Document([i \in 1..n |-> [pair |-> pairs[i], text |-> text]]) :
                  pairs \in [1..n -> TimePairs], text \in Texts } :
            n \in 0..MaxBlocks }

\* The OFFSET or TIME argument, [MM:]SS[,sss], as the text of its three parts;
\* <<>> for a part that is absent.
OffsetText(mm, ss, ms) == [mm |-> mm, ss |-> ss, ms |-> ms]

\* The arguments of the runs that go through both passes.
Offsets ==
    { OffsetText(<<"0">>, <<"0", "5">>, <<>>),                 \* "0:05"
      OffsetText(<<>>, <<"5">>, <<>>),                          \* "5"
      OffsetText(<<"1", "2", "3">>, <<"0", "0">>, <<>>) }       \* "123:00"

\* The arguments of the runs that exercise check_args and get_date.
SecondsTexts ==
    { <<"0">>, <<"5">>, <<"0", "5">>, <<"5", "9">>, <<"6", "0">>, <<"7", "5">>,
      <<"9", "0">>, <<"1", "0", "0">>, <<"3", "5", "9", "9">>,
      <<"3", "6", "0", "0">> }

MinutesTexts == { <<>>, <<"0">>, <<"1">>, <<"5", "9">>, <<"6", "0">>, <<"1", "2", "3">> }

MillisTexts == { <<>>, <<"5">>, <<"4", "3">>, <<"4", "5", "6">>, <<"1", "2", "3", "4">> }

WideOffsets ==
    { OffsetText(mm, ss, ms) : mm \in MinutesTexts, ss \in SecondsTexts,
                               ms \in MillisTexts }

Modes == {"delay_subs", "delay_video", "start_at"}

(***************************************************************************)
(* check_args.                                                             *)
(***************************************************************************)
\* re.match('(\d{1,2}:)?\d+(,\d{1,3})?$', input_offset)
offset_ok(o) ==
    /\ Len(o.mm) <= 2 /\ (Len(o.mm) > 0 => IsDigits(o.mm))
    /\ IsDigits(o.ss)
    /\ Len(o.ms) <= 3 /\ (Len(o.ms) > 0 => IsDigits(o.ms))

\* offset.group(x) if offset.group(x) else "0"
nsafe(group) == IF Len(group) > 0 THEN group ELSE <<"0">>

\* re.match('^\d+(,(\d{1,3}))?$', input_offset)
seconds_only(o) == Len(o.mm) = 0

\* The Params check_args returns under Python py; ok is FALSE where it returns None.
check_args(py, exists, o) ==
    IF ~exists \/ ~offset_ok(o)
    THEN [ok |-> FALSE, mins |-> <<>>, secs |-> <<>>, millis |-> <<>>]
    ELSE IF seconds_only(o)
         THEN [ok |-> TRUE,
               mins |-> str_div(py, int(nsafe(o.ss)), 60),
               secs |-> str(int(nsafe(o.ss)) % 60),
               millis |-> ljust3(nsafe(o.ms))]
         ELSE [ok |-> TRUE,
               mins |-> nsafe(o.mm),
               secs |-> nsafe(o.ss),
               millis |-> ljust3(nsafe(o.ms))]

(***************************************************************************)
(* The start_at prompt.                                                    *)
(***************************************************************************)
\* One iteration of get_first_lines' loop.
get_first_lines_step(st, line, line_count) ==
    IF line.kind = "time"
    THEN [found |-> st.found + 1,
          lines |-> IF st.found > 0
                    THEN Append(st.lines, SubSeq(st.buf, 1, Len(st.buf) - 1))
                    ELSE st.lines,
          times |-> Append(st.times, line),
          buf   |-> <<>>,
          done  |-> st.found + 1 > line_count]
    ELSE [st EXCEPT !.buf = Append(st.buf, line), !.done = st.found > line_count]

RECURSIVE get_first_lines_loop(_, _, _, _)
get_first_lines_loop(file, i, st, line_count) ==
    IF i > Len(file) \/ st.done THEN st
    ELSE get_first_lines_loop(file, i + 1,
                              get_first_lines_step(st, file[i], line_count),
                              line_count)

get_first_lines(file, line_count) ==
    get_first_lines_loop(file, 1,
        [found |-> 0, lines |-> <<>>, times |-> <<>>, buf |-> <<>>, done |-> FALSE],
        line_count)

\* What the user may type: nothing, something that is no number, or a number.
Typed(kind, n) == [kind |-> kind, n |-> n]

Answers ==
    {Typed("empty", 0), Typed("other", 0)} \cup {Typed("int", n) : n \in 0..(MaxBlocks + 1)}

\* get_offset_from_start_at: how it ends ("ok", "SystemExit", "IndexError",
\* "ValueError") and, when "ok", the datetime it returns.
get_offset_from_start_at(file, typed) ==
    LET first   == get_first_lines(file, LINES_TO_SHOW)
        choices == Len(first.lines)
        idx     == IF typed.kind = "empty" THEN 0 ELSE typed.n - 1
    IN  IF typed.kind = "other" THEN [end |-> "SystemExit", value |-> 0]
        ELSE IF typed.kind = "int" /\ (typed.n < 1 \/ typed.n > choices)
        THEN [end |-> "SystemExit", value |-> 0]
        ELSE IF idx + 1 > Len(first.times) THEN [end |-> "IndexError", value |-> 0]
        ELSE IF ~parse_time_ok(first.times[idx + 1].s)
        THEN [end |-> "ValueError", value |-> 0]
        ELSE [end |-> "ok", value |-> parse_time(first.times[idx + 1].s)]

\* start_at_offset without its first branch: the offset is always added.
start_at_offset_always_added(first, starting_at) ==
    [offset |-> IF first > starting_at THEN first - starting_at
                ELSE starting_at - first,
     subtract |-> FALSE]

\* Lines 117-123 of __init__: the timedelta and whether it is subtracted.
start_at_offset(first, starting_at) ==
    IF first > starting_at
    THEN [offset |-> first - starting_at, subtract |-> TRUE]
    ELSE [offset |-> starting_at - first, subtract |-> FALSE]

(***************************************************************************)
(* The shift pass.                                                         *)
(***************************************************************************)
\* offset_func shifting the start alone.
offset_func_start_only(start, end, off, subtract) ==
    IF subtract THEN <<start - off, end>> ELSE <<start + off, end>>

offset_func(start, end, off, subtract) ==
    IF subtract THEN <<start - off, end - off>> ELSE <<start + off, end + off>>

\* One iteration of parse_subs' loop; ok turns FALSE where parse_time raises.
parse_subs_step(st, line, off, subtract) ==
    IF line.kind = "time"
    THEN IF ~(parse_time_ok(line.s) /\ parse_time_ok(line.e))
         THEN [st EXCEPT !.block = st.block + 1, !.ok = FALSE]
         ELSE LET block   == st.block + 1
                  shifted == offset_func(parse_time(line.s), parse_time(line.e),
                                         off, subtract)
                  start   == shifted[1]
                  end     == shifted[2]
                  becomes == st.first_valid = 0 /\ end >= DATE_ZERO
                  offset_start == IF becomes /\ start < DATE_ZERO
                                  THEN ZeroStamp
                                  ELSE format_time(start)
              IN  [block |-> block,
                   first_valid |-> IF becomes THEN block ELSE st.first_valid,
                   out |-> Append(st.out, TimeLine(line.b, offset_start,
                                                   format_time(end), "LF")),
                   ok |-> TRUE]
    ELSE [st EXCEPT !.out = Append(st.out, line)]

RECURSIVE parse_subs_loop(_, _, _, _, _)
parse_subs_loop(file, i, st, off, subtract) ==
    IF i > Len(file) \/ ~st.ok THEN st
    ELSE parse_subs_loop(file, i + 1, parse_subs_step(st, file[i], off, subtract),
                         off, subtract)

parse_subs(file, fv, off, subtract) ==
    parse_subs_loop(file, 1,
        [block |-> 0, first_valid |-> fv, out |-> <<>>, ok |-> TRUE],
        off, subtract)

(***************************************************************************)
(* The renumber pass.                                                      *)
(***************************************************************************)
fix_file_step(st, line, fv) ==
    IF line.kind = "digits"
    THEN IF line.n >= fv
         THEN [start_output |-> TRUE,
               out |-> Append(st.out,
                              DigitsLine(line.role, line.b, line.n - fv + 1, "CRLF"))]
         ELSE st
    ELSE IF st.start_output THEN [st EXCEPT !.out = Append(st.out, line)]
    ELSE st

RECURSIVE fix_file_loop(_, _, _, _)
fix_file_loop(file, i, st, fv) ==
    IF i > Len(file) THEN st
    ELSE fix_file_loop(file, i + 1, fix_file_step(st, file[i], fv), fv)

fix_file(file, fv) ==
    fix_file_loop(file, 1, [start_output |-> FALSE, out |-> <<>>], fv).out

(***************************************************************************)
(* The run: SubSlider.__init__.                                            *)
(***************************************************************************)
NoAnswer == Typed("empty", 0)

\* line 128: subtract_offset or args.delay_video
Subtracts == subtract_offset \/ args.mode = "delay_video"

Fresh(file, a) ==
    /\ pc = "check_args"
    /\ args = a
    /\ input_subs = file
    /\ minutes = <<>> /\ seconds = <<>> /\ millis = <<>>
    /\ choice = NoAnswer
    /\ first_starts_at = DATE_ZERO
    /\ offset = 0
    /\ subtract_offset = FALSE
    /\ first_valid = 0
    /\ temp_exists = FALSE
    /\ output_temp = <<>>
    /\ output_subs = <<>>
    /\ error = "none"

Init ==
    /\ run = 1
    /\ \E file \in Documents, mode \in Modes, o \in Offsets :
          /\ Fresh(file, [mode |-> mode, offset |-> o])
          /\ orig_subs = file
    /\ input_exists \in BOOLEAN
    /\ ~input_exists => input_subs = <<>>

\* The same program, started on one-block documents with a wide range of
\* OFFSET arguments.
InitArgs ==
    /\ run = 1
    /\ \E spec \in BlockSpecs, mode \in Modes, o \in WideOffsets :
          /\ spec.text = "words"
          /\ Fresh(Document(<<spec>>), [mode |-> mode, offset |-> o])
          /\ orig_subs = Document(<<spec>>)
    /\ input_exists = TRUE

Fail(what) ==
    /\ pc' = "failed"
    /\ error' = what

\* Lines 93-109: check_args, then self.first_valid = 0.  The copy of the input
\* to *_orig.srt (lines 104-107) touches no file the passes read or write.
CheckArgs ==
    /\ pc = "check_args"
    /\ \E py \in PyVersions :
          LET parsed == check_args(py, input_exists, args.offset)
          IN  IF ~parsed.ok
              THEN /\ Fail("SystemExit")
                   /\ UNCHANGED <<minutes, seconds, millis, first_valid>>
              ELSE /\ minutes' = parsed.mins
                   /\ seconds' = parsed.secs
                   /\ millis' = parsed.millis
                   /\ first_valid' = 0
                   /\ pc' = IF args.mode = "start_at" THEN "prompt" ELSE "offset"
                   /\ error' = error
    /\ UNCHANGED <<run, args, input_exists, input_subs, orig_subs, choice,
                   first_starts_at, offset, subtract_offset, temp_exists,
                   output_temp, output_subs>>

\* Line 115: get_offset_from_start_at, with what the user types.
StartAtPrompt ==
    /\ pc = "prompt"
    /\ \E typed \in Answers :
          LET r == get_offset_from_start_at(input_subs, typed)
          IN  /\ choice' = typed
              /\ IF r.end = "ok"
                 THEN /\ first_starts_at' = r.value
                      /\ pc' = "offset"
                      /\ error' = error
                 ELSE /\ Fail(IF r.end = "ValueError" THEN "parse_time:ValueError"
                              ELSE r.end)
                      /\ UNCHANGED first_starts_at
    /\ UNCHANGED <<run, args, input_exists, input_subs, orig_subs, minutes,
                   seconds, millis, offset, subtract_offset, first_valid,
                   temp_exists, output_temp, output_subs>>

\* Lines 113-131: the offset and its direction.
ResolveOffset ==
    /\ pc = "offset"
    /\ IF ~get_date_ok(minutes, seconds, millis)
       THEN /\ Fail("get_date:ValueError")
            /\ UNCHANGED <<offset, subtract_offset>>
       ELSE /\ IF args.mode = "start_at"
               THEN LET r == start_at_offset(first_starts_at,
                                             get_date(minutes, seconds, millis))
                    IN  /\ offset' = r.offset
                        /\ subtract_offset' = r.subtract
               ELSE /\ offset' = get_date(minutes, seconds, millis) - DATE_ZERO
                    /\ subtract_offset' = FALSE
            /\ pc' = "parse_subs"
            /\ error' = error
    /\ UNCHANGED <<run, args, input_exists, input_subs, orig_subs, minutes,
                   seconds, millis, choice, first_starts_at, first_valid,
                   temp_exists, output_temp, output_subs>>

\* Line 133: the shift pass.  The temp file is created when it is opened, and
\* holds what was written before parse_time raised.
ParseSubs ==
    /\ pc = "parse_subs"
    /\ LET r == parse_subs(input_subs, first_valid, offset, Subtracts)
       IN  /\ temp_exists' = TRUE
           /\ output_temp' = r.out
           /\ first_valid' = r.first_valid
           /\ IF r.ok
              THEN pc' = "fix_file" /\ error' = error
              ELSE Fail("parse_time:ValueError")
    /\ UNCHANGED <<run, args, input_exists, input_subs, orig_subs, minutes,
                   seconds, millis, choice, first_starts_at, offset,
                   subtract_offset, output_subs>>

\* Line 134: the renumber pass.
FixFile ==
    /\ pc = "fix_file"
    /\ output_subs' = fix_file(output_temp, first_valid)
    /\ pc' = "remove"
    /\ UNCHANGED <<run, args, input_exists, input_subs, orig_subs, minutes,
                   seconds, millis, choice, first_starts_at, offset,
                   subtract_offset, first_valid, temp_exists, output_temp, error>>

\* Lines 136-142: os.remove(self.output_temp).
RemoveTemp ==
    /\ pc = "remove"
    /\ temp_exists' = FALSE
    /\ output_temp' = <<>>
    /\ pc' = "done"
    /\ UNCHANGED <<run, args, input_exists, input_subs, orig_subs, minutes,
                   seconds, millis, choice, first_starts_at, offset,
                   subtract_offset, first_valid, output_subs, error>>

\* The script is run again on the output of a finished delay_subs run, with
\* delay_video and the same OFFSET.
RunAgain ==
    /\ pc = "done"
    /\ run = 1
    /\ args.mode = "delay_subs"
    /\ run' = 2
    /\ pc' = "check_args"
    /\ args' = [args EXCEPT !.mode = "delay_video"]
    /\ input_subs' = output_subs
    /\ minutes' = <<>> /\ seconds' = <<>> /\ millis' = <<>>
    /\ offset' = 0
    /\ subtract_offset' = FALSE
    /\ first_valid' = 0
    /\ output_subs' = <<>>
    /\ UNCHANGED <<input_exists, orig_subs, choice, first_starts_at, temp_exists,
                   output_temp, error>>

Next ==
    \/ CheckArgs
    \/ StartAtPrompt
    \/ ResolveOffset
    \/ ParseSubs
    \/ FixFile
    \/ RemoveTemp
    \/ RunAgain

Spec == Init /\ [][Next]_vars

SpecArgs == InitArgs /\ [][Next]_vars

(***************************************************************************)
(* What the properties below speak of.                                     *)
(***************************************************************************)
IsTime(line) == line.kind = "time"

TimeLines(file) == SelectSeq(file, IsTime)

\* The blocks of the input and the timestamp lines the shift pass emitted for
\* them, both in file order.
InBlocks == TimeLines(input_subs)

TempBlocks == TimeLines(output_temp)

\* The shifted <<start, end>> of a timestamp line of the input.
Shifted(line) ==
    offset_func(parse_time(line.s), parse_time(line.e), offset, Subtracts)

Duration(line) == parse_time(line.e) - parse_time(line.s)

InDay(value) == DATE_ZERO <= value /\ value < DATE_ZERO + DAY

\* The block whose start the shift pass wrote as 00:00:00,000.
Clamped(i) == i = first_valid /\ Shifted(InBlocks[i])[1] < DATE_ZERO

AfterShift == pc \in {"fix_file", "remove"}

AfterRenumber == pc \in {"remove", "done"}

\* The lines of block b in a file other than its sequence-number line.
ContentOf(file, b) ==
    LET keep(line) == line.b = b /\ line.role # "seq"
    IN  SelectSeq(file, keep)

SeqLineOf(file, b) ==
    LET keep(line) == line.b = b /\ line.role = "seq"
    IN  SelectSeq(file, keep)

SeqNumbers(file) ==
    LET keep(line) == line.role = "seq"
        lines == SelectSeq(file, keep)
    IN  [i \in 1..Len(lines) |-> lines[i].n]

(***************************************************************************)
(* C1: after both passes, no line of a block whose shifted end time is     *)
(* below zero is in the final output, wherever the block stands in the     *)
(* document.                                                               *)
(***************************************************************************)
C1_DropThreshold ==
    (AfterRenumber /\ run = 1) =>
        \A k \in 1..Len(output_subs) :
            Shifted(InBlocks[output_subs[k].b])[2] >= DATE_ZERO

(***************************************************************************)
(* C2: when no block has a shifted end time >= zero, first_valid keeps its *)
(* initial value and the renumber pass writes nothing.                     *)
(***************************************************************************)
C2_DropEverything ==
    (/\ AfterRenumber
     /\ \A i \in 1..Len(InBlocks) : Shifted(InBlocks[i])[2] < DATE_ZERO)
        => (first_valid = 0 /\ output_subs = <<>> /\ error = "none")

(***************************************************************************)
(* C3: every block whose shifted end is >= zero and whose shifted start is *)
(* below zero is in the final output, its start written 00:00:00,000 and   *)
(* its end written as the shifted end.                                     *)
(***************************************************************************)
C3_ClampEveryBlock ==
    (AfterRenumber /\ run = 1) =>
        \A i \in 1..Len(InBlocks) :
            LET shifted == Shifted(InBlocks[i])
            IN  (shifted[2] >= DATE_ZERO /\ shifted[1] < DATE_ZERO) =>
                    \E k \in 1..Len(output_subs) :
                        /\ output_subs[k].kind = "time"
                        /\ output_subs[k].b = InBlocks[i].b
                        /\ output_subs[k].s = ZeroStamp
                        /\ parse_time(output_subs[k].e) = shifted[2]

(***************************************************************************)
(* C4: for an input numbered 1..N, the sequence numbers of the final       *)
(* output are 1, 2, ..., K, K the number of input blocks whose index is    *)
(* >= first_valid, whatever first_valid is.                                *)
(***************************************************************************)
C4_RenumberContiguous ==
    (AfterRenumber /\ run = 1) =>
        LET K == Cardinality({i \in 1..Len(InBlocks) : i >= first_valid})
        IN  SeqNumbers(output_subs) = [i \in 1..K |-> i]

(***************************************************************************)
(* C5 as stated: the timestamp pair the shift pass emits for a block has   *)
(* the block's original duration, for every block.                         *)
(***************************************************************************)
C5_DurationPreserved ==
    AfterShift =>
        \A i \in 1..Len(InBlocks) : Duration(TempBlocks[i]) = Duration(InBlocks[i])

(***************************************************************************)
(* C5 amended: for every block but the clamped one, the emitted pair has   *)
(* the original duration modulo 24 hours, and exactly the original         *)
(* duration when the shifted start and end are both within                 *)
(* 00:00:00,000-23:59:59,999; the clamped block is emitted from            *)
(* 00:00:00,000 to its shifted end.                                        *)
(***************************************************************************)
C5_DurationPreservedUnlessClamped ==
    AfterShift =>
        \A i \in 1..Len(InBlocks) :
            LET shifted == Shifted(InBlocks[i])
            IN  IF Clamped(i)
                THEN /\ TempBlocks[i].s = ZeroStamp
                     /\ parse_time(TempBlocks[i].e) = shifted[2]
                ELSE /\ (Duration(TempBlocks[i]) - Duration(InBlocks[i])) % DAY = 0
                     /\ (InDay(shifted[1]) /\ InDay(shifted[2])) =>
                            Duration(TempBlocks[i]) = Duration(InBlocks[i])

\* A shift pass that clamped one block, emitted another within the day and
\* emitted a third outside of it.
C5_Witness ==
    /\ AfterShift
    /\ offset > 0
    /\ \E i, j, k \in 1..Len(InBlocks) :
          /\ Clamped(i)
          /\ ~Clamped(j)
          /\ InDay(Shifted(InBlocks[j])[1]) /\ InDay(Shifted(InBlocks[j])[2])
          /\ ~InDay(Shifted(InBlocks[k])[2])

(***************************************************************************)
(* C6: delay_subs with D, then delay_video with the same D on the output,  *)
(* gives back every block of the original with its original start and end. *)
(***************************************************************************)
C6_RoundTrip ==
    (pc = "done" /\ run = 2) =>
        \A i \in 1..Len(TimeLines(orig_subs)) :
            LET block == TimeLines(orig_subs)[i]
            IN  \E k \in 1..Len(output_subs) :
                    /\ output_subs[k].kind = "time"
                    /\ output_subs[k].b = block.b
                    /\ output_subs[k].s = block.s
                    /\ output_subs[k].e = block.e

(***************************************************************************)
(* C7: in start_at mode the offset is |target - start of the chosen        *)
(* block|, subtracted when the chosen block starts after the target and    *)
(* added otherwise; the shift pass emits the chosen block's start as the   *)
(* target, and every other timestamp shifted the same way.                 *)
(***************************************************************************)
Chosen == IF choice.kind = "empty" THEN 1 ELSE choice.n

Target == get_date(minutes, seconds, millis)

C7_ReAnchor ==
    (args.mode = "start_at" /\ AfterShift) =>
        LET original == parse_time(InBlocks[Chosen].s)
            delta    == Target - original
        IN  /\ offset = (IF delta < 0 THEN -delta ELSE delta)
            /\ Subtracts = (original > Target)
            /\ TempBlocks[Chosen].s = format_time(Target)
            /\ parse_time(TempBlocks[Chosen].s) = Target - DATE_ZERO
            /\ \A i \in 1..Len(InBlocks) :
                  /\ TempBlocks[i].e = format_time(parse_time(InBlocks[i].e) + delta)
                  /\ ~Clamped(i) =>
                        TempBlocks[i].s = format_time(parse_time(InBlocks[i].s) + delta)

\* The user chose the second block, which starts after the target, and the
\* shift pass has run.
C7_Witness ==
    /\ args.mode = "start_at"
    /\ AfterShift
    /\ choice.kind = "int" /\ choice.n = 2
    /\ parse_time(InBlocks[2].s) > Target
    /\ parse_time(InBlocks[1].s) < Target

(***************************************************************************)
(* C8: whenever a run has ended, with or without an error, the temp file   *)
(* the shift pass created is gone.                                         *)
(***************************************************************************)
C8_TempRemoved ==
    pc \in {"done", "failed"} => ~temp_exists

(***************************************************************************)
(* C9: an OFFSET without a colon, S seconds and m milliseconds, resolves   *)
(* to S div 60 minutes, S mod 60 seconds and m milliseconds, which         *)
(* get_date accepts.                                                       *)
(***************************************************************************)
C9_SecondsOnly ==
    (/\ input_exists
     /\ offset_ok(args.offset) /\ seconds_only(args.offset)
     /\ pc # "check_args") =>
        LET S == int(args.offset.ss)
            m == int(ljust3(nsafe(args.offset.ms)))
        IN  /\ minutes = str(S \div 60)
            /\ seconds = str(S % 60)
            /\ int(millis) = m
            /\ error # "get_date:ValueError"
            /\ (args.mode # "start_at" /\ pc \in {"parse_subs", "fix_file", "remove", "done"})
                   => offset = S * 1000 + m

(***************************************************************************)
(* C10: for every block whose sequence number is >= first_valid, the       *)
(* renumber pass writes the timestamp line and the text lines as they are  *)
(* in the temp file, in order, and rewrites only the sequence number, to   *)
(* N - first_valid + 1.  (The lines are compared without their line        *)
(* terminators.)                                                           *)
(***************************************************************************)
Unterminated(lines) == [i \in 1..Len(lines) |-> [lines[i] EXCEPT !.eol = "LF"]]

C10_ContentUnchanged ==
    (pc = "remove" /\ run = 1) =>
        \A k \in 1..Len(output_temp) :
            LET line == output_temp[k]
            IN  (line.role = "seq" /\ line.n >= first_valid) =>
                    /\ Unterminated(ContentOf(output_subs, line.b))
                           = Unterminated(ContentOf(output_temp, line.b))
                    /\ SeqLineOf(output_subs, line.b) =
                           <<DigitsLine("seq", line.b, line.n - first_valid + 1, "CRLF")>>

====
